---------------------------- MODULE Spec2Model ----------------------------
(***************************************************************************)
(* A model of clicketz/wow-luacheck: the two scripts that collect the      *)
(* WoW global names and write the luacheck configuration.                  *)
(*                                                                         *)
(*   src/update_globals.py                 the structured pipeline         *)
(*   src/scripts/generate_wow_globals.py   the flat (set of names) pipeline*)
(*                                                                         *)
(* Representation.                                                         *)
(*   A Python str that the code inspects character by character (a symbol  *)
(*   name, a line of the custom file) is a sequence of one-character       *)
(*   strings; ord gives each character its code point.                     *)
(*   A Python dict is the sequence of its items in insertion order, keys   *)
(*   unique; a value is True, a dict or a list (of str).                   *)
(*   A text file is a sequence of tokens: the fixed pieces the code writes *)
(*   as one token each, names spelled out character by character.          *)
(*   A file a regular expression is run over as a whole (an API or enum    *)
(*   definition file) is the sequence of its characters, newlines included;*)
(*   the cached enUS.lua is the sequence of its lines.                     *)
(***************************************************************************)
EXTENDS Integers, Sequences, FiniteSets, TLC

(***************************************************************************)
(* Bounds of the model.                                                    *)
(***************************************************************************)
MaxFields == 2
MaxCustomLines == 2
MaxEmits == 2
MaxInserts == 3
MaxTables == 2
MaxChildren == 2

(***************************************************************************)
(* Characters and strings.                                                 *)
(***************************************************************************)
\* Python's ord(): the code point of each character the model uses.
ord(c) ==
    CASE c = " "  -> 32
      [] c = "\"" -> 34
      [] c = "#"  -> 35
      [] c = "'"  -> 39
      [] c = ","  -> 44
      [] c = "-"  -> 45
      [] c = "."  -> 46
      [] c = "1"  -> 49
      [] c = "="  -> 61
      [] c = "A"  -> 65
      [] c = "B"  -> 66
      [] c = "C"  -> 67
      [] c = "E"  -> 69
      [] c = "L"  -> 76
      [] c = "U"  -> 85
      [] c = "Z"  -> 90
      [] c = "_"  -> 95
      [] c = "a"  -> 97
      [] c = "b"  -> 98
      [] c = "d"  -> 100
      [] c = "e"  -> 101
      [] c = "f"  -> 102
      [] c = "g"  -> 103
      [] c = "i"  -> 105
      [] c = "l"  -> 108
      [] c = "m"  -> 109
      [] c = "n"  -> 110
      [] c = "s"  -> 115
      [] c = "u"  -> 117

\* Python's str < str: lexicographic on code points, a proper prefix first.
RECURSIVE StrLess(_, _)
StrLess(a, b) ==
    IF b = <<>> THEN FALSE
    ELSE IF a = <<>> THEN TRUE
    ELSE IF ord(Head(a)) # ord(Head(b)) THEN ord(Head(a)) < ord(Head(b))
    ELSE StrLess(Tail(a), Tail(b))

\* list.insert at the place sorted() gives x among the already sorted s
\* (stable: after the elements that are not greater).
RECURSIVE InsertSorted(_, _)
InsertSorted(x, s) ==
    IF s = <<>> THEN <<x>>
    ELSE IF StrLess(x, Head(s)) THEN <<x>> \o s
    ELSE <<Head(s)>> \o InsertSorted(x, Tail(s))

\* A faulty sorted: the input order is kept.
sorted_unsorted(s) == s

\* Python's sorted() on an iterable of str, the iterable given in its
\* iteration order.
RECURSIVE sorted(_)
sorted(s) ==
    IF s = <<>> THEN <<>>
    ELSE InsertSorted(s[Len(s)], sorted(SubSeq(s, 1, Len(s) - 1)))

\* An iteration order of a Python set: some order of its elements, the one
\* the hash table happens to give.
RECURSIVE IterSet(_)
IterSet(S) ==
    IF S = {} THEN <<>>
    ELSE LET x == CHOOSE y \in S : TRUE IN <<x>> \o IterSet(S \ {x})

Range(s) == {s[i] : i \in DOMAIN s}

(***************************************************************************)
(* Python values and dicts.                                                *)
(***************************************************************************)
\* The value True (update_globals.py marks a plain global with it).
PyTrue == [t |-> "True", d |-> <<>>, l |-> <<>>]
\* A dict value, its items in insertion order.
PyDict(items) == [t |-> "dict", d |-> items, l |-> <<>>]
\* A list value.
PyList(elems) == [t |-> "list", d |-> <<>>, l |-> elems]

Item(k, v) == [k |-> k, v |-> v]

\* d.keys()
Keys(d) == {d[i].k : i \in DOMAIN d}
\* d[k], for k in d
Get(d, k) == d[CHOOSE i \in DOMAIN d : d[i].k = k].v
\* d[k] = v: a present key keeps its place, a new key goes last.
SetItem(d, k, v) ==
    IF k \in Keys(d)
    THEN [i \in DOMAIN d |-> IF d[i].k = k THEN Item(k, v) ELSE d[i]]
    ELSE Append(d, Item(k, v))

\* merge_globals(d1, d2): d1 after the call.
RECURSIVE merge_globals(_, _)
merge_globals(d1, d2) ==
    IF d2 = <<>> THEN d1
    ELSE LET k == Head(d2).k
             v == Head(d2).v
             both == /\ k \in Keys(d1)
                     /\ Get(d1, k).t = "dict"
                     /\ v.t = "dict"
             step == IF both
                     THEN SetItem(d1, k, PyDict(merge_globals(Get(d1, k).d, v.d)))
                     ELSE SetItem(d1, k, v)
         IN merge_globals(step, Tail(d2))

\* Python's == on two values of the model: dicts compare by content, whatever
\* the insertion order; lists compare element by element.
RECURSIVE PyEq(_, _)
PyEq(x, y) ==
    /\ x.t = y.t
    /\ x.l = y.l
    /\ Keys(x.d) = Keys(y.d)
    /\ \A k \in Keys(x.d) : PyEq(Get(x.d, k), Get(y.d, k))

DictEq(a, b) == PyEq(PyDict(a), PyDict(b))


(***************************************************************************)
(* State.                                                                  *)
(***************************************************************************)
VARIABLES
    \* merge_globals applied to two Symbol Maps in both orders
    mA, mB, regAB, regBA, mstep,
    \* the custom file read by both readers
    clines, cread, from_lua, from_txt,
    \* a dict filled in some insertion order, and what the emitters render
    edict, eparts, eout,
    \* a source file given to its parser
    psrc, pout, pdone,
    \* the cache of cached_get and the server it asks
    srv, cache_file, meta_file, tmp_file, last200, kcall, kglobals,
    \* one run of an entry point over the file system
    pc, idx, all_globals, gen_globals, fetchlog, fs, lastOp, emits

mergeVars == <<mA, mB, regAB, regBA, mstep>>
customVars == <<clines, cread, from_lua, from_txt>>
emitVars == <<edict, eparts, eout>>
parseVars == <<psrc, pout, pdone>>
cacheVars == <<srv, cache_file, meta_file, tmp_file, last200, kcall, kglobals>>
runVars == <<pc, idx, all_globals, gen_globals, fetchlog, fs, lastOp, emits>>
vars == <<mergeVars, customVars, emitVars, parseVars, cacheVars, runVars>>
\* What each specification leaves alone.
notMerge == <<customVars, emitVars, parseVars, cacheVars, runVars>>
notCustom == <<mergeVars, emitVars, parseVars, cacheVars, runVars>>
notEmit == <<mergeVars, customVars, parseVars, cacheVars, runVars>>
notRun == <<mergeVars, customVars, emitVars, parseVars, cacheVars>>
notCache == <<mergeVars, customVars, emitVars, parseVars, runVars>>
notParse == <<mergeVars, customVars, emitVars, cacheVars, runVars>>

(***************************************************************************)
(* Names the sample inputs use.                                            *)
(***************************************************************************)
s_fields == <<"f", "i", "e", "l", "d", "s">>
s_Enum == <<"E", "n", "u", "m">>
s_C_A == <<"C", "_", "A">>
s_Ab == <<"A", "b">>
s_Ba == <<"B", "a">>
s_a == <<"a">>
s_b == <<"b">>
s_Z == <<"Z">>
s_LE_A == <<"L", "E", "_", "A">>

\* Field names in the order the bound admits them.
FieldNames == <<s_a, s_Z, s_b>>
FieldSet == {FieldNames[i] : i \in 1..(IF MaxFields < Len(FieldNames) THEN MaxFields ELSE Len(FieldNames))}

\* {'fields': sorted(list(F))}: the value the parsers give a table.
Structured(F) == PyDict(<<Item(s_fields, PyList(sorted(IterSet(F))))>>)
\* {child: {'fields': [...]}}: the value parse_enum_definitions gives Enum.
Nested(child, F) == PyDict(<<Item(child, Structured(F))>>)

(***************************************************************************)
(* merge_globals on two Symbol Maps, in both orders.                       *)
(***************************************************************************)
\* What a source can say about the table C_A, and about Enum.
TableForms == {PyTrue} \cup {Structured(F) : F \in SUBSET FieldSet}
EnumForms == {PyTrue} \cup
    {Nested(c, F) : c \in {s_Ab, s_Ba}, F \in (SUBSET FieldSet) \ {{}}}

\* The Symbol Maps: C_A and Enum each absent or in one of its forms.
SymbolMaps ==
    {<<>>}
    \cup {<<Item(s_C_A, v)>> : v \in TableForms}
    \cup {<<Item(s_Enum, w)>> : w \in EnumForms}
    \cup {<<Item(s_C_A, v), Item(s_Enum, w)>> : v \in TableForms, w \in EnumForms}

MergeInit ==
    /\ mA \in SymbolMaps
    /\ mB \in SymbolMaps
    /\ regAB = <<>>
    /\ regBA = <<>>
    /\ mstep = 0

\* The first fold: A into one empty Registry, B into another.
MergeFirst ==
    /\ mstep = 0
    /\ regAB' = merge_globals(regAB, mA)
    /\ regBA' = merge_globals(regBA, mB)
    /\ mstep' = 1
    /\ UNCHANGED <<mA, mB>>
    /\ UNCHANGED notMerge

\* The second fold: the other map into each.
MergeSecond ==
    /\ mstep = 1
    /\ regAB' = merge_globals(regAB, mB)
    /\ regBA' = merge_globals(regBA, mA)
    /\ mstep' = 2
    /\ UNCHANGED <<mA, mB>>
    /\ UNCHANGED notMerge


(***************************************************************************)
(* Text: the tokens of the files the scripts write.                        *)
(***************************************************************************)
NL == "\n"
\* One level of indentation, "    ".
IND == "    "
SP == " "
\* The literal update_luacheckrc searches for and both scripts write.
GLOBALS_OPEN == "globals = {"

\* The tokens str.rstrip() and str.lstrip() remove.
Whitespace == {NL, IND, SP, "  "}

\* The characters of a symbol name: letters, digits, underscore.
NameChars ==
    {"1", "A", "B", "C", "E", "L", "U", "Z", "_",
     "a", "b", "d", "e", "f", "g", "i", "l", "m", "n", "s", "u"}

\* sep.join(parts)
RECURSIVE Join(_, _)
Join(sep, parts) ==
    IF parts = <<>> THEN <<>>
    ELSE IF Len(parts) = 1 THEN parts[1]
    ELSE parts[1] \o sep \o Join(sep, Tail(parts))

\* The concatenation of a sequence of texts.
Concat(parts) == Join(<<>>, parts)

\* "    " * indent
RECURSIVE Indent(_)
Indent(n) == IF n = 0 THEN <<>> ELSE <<IND>> \o Indent(n - 1)

\* s.rstrip()
RECURSIVE rstrip(_)
rstrip(s) ==
    IF s = <<>> THEN <<>>
    ELSE IF s[Len(s)] \in Whitespace THEN rstrip(SubSeq(s, 1, Len(s) - 1))
    ELSE s

\* s.lstrip()
RECURSIVE lstrip(_)
lstrip(s) ==
    IF s = <<>> THEN <<>>
    ELSE IF Head(s) \in Whitespace THEN lstrip(Tail(s))
    ELSE s

\* s.strip()
strip(s) == lstrip(rstrip(s))

\* s.find(tok) for a literal the text holds as one token: the first index,
\* 0 when absent (Python's -1).
Find(s, tok) ==
    IF \E i \in DOMAIN s : s[i] = tok
    THEN CHOOSE i \in DOMAIN s : s[i] = tok /\ \A j \in 1..(i - 1) : s[j] # tok
    ELSE 0

(***************************************************************************)
(* update_globals.py: format_globals_recursive.                            *)
(***************************************************************************)
\* One element of the 'fields' list: indent_str + "    '" + f + "'".
FieldLine(f, indent) == Indent(indent + 1) \o <<"'">> \o f \o <<"'">>

\* format_globals_recursive(data, indent): the list of parts, one per key,
\* keys(ks) being data.keys() in iteration order.
RECURSIVE format_parts(_, _, _)
format_parts(data, ks, indent) ==
    IF ks = <<>> THEN <<>>
    ELSE LET key == Head(ks)
             value == Get(data, key)
             part ==
                IF value.t = "True"
                THEN Indent(indent) \o <<"\"">> \o key \o <<"\"">>
                ELSE IF value.t = "dict"
                THEN Indent(indent) \o key \o <<" = {", NL>>
                     \o Join(<<",", NL>>,
                             format_parts(value.d,
                                          sorted([i \in DOMAIN value.d |-> value.d[i].k]),
                                          indent + 1))
                     \o <<NL>> \o Indent(indent) \o <<"}">>
                ELSE Indent(indent) \o key \o <<" = {", NL>>
                     \o Join(<<",", NL>>,
                             [i \in DOMAIN sorted(value.l) |->
                                 FieldLine(sorted(value.l)[i], indent)])
                     \o <<NL>> \o Indent(indent) \o <<"}">>
         IN <<part>> \o format_parts(data, Tail(ks), indent)

format_globals_recursive(data, indent) ==
    format_parts(data, sorted([i \in DOMAIN data |-> data[i].k]), indent)

\* new_globals_block of update_luacheckrc.
GlobalsBlock(globals_dict) ==
    <<GLOBALS_OPEN, NL>>
    \o Join(<<",", NL>>, format_globals_recursive(globals_dict, 1))
    \o <<NL, "}">>


(***************************************************************************)
(* update_globals.py: the default document and update_luacheckrc.          *)
(***************************************************************************)
\* The directives both scripts write before (or around) the globals block.
STD_LINE == "std = 'lua51'"
MAXLEN_LINE == "max_line_length = false"
EXCLUDE_KEY == "exclude_files ="
EXCLUDE_BODY == "'**Libs/', '**libs/'"
IGNORE_KEY == "ignore ="

\* The lines between "ignore = {" and its "}" in DEFAULT_LUACHECKRC_CONTENT.
DefaultIgnoreLines ==
    Concat(<<
        <<IND, "'11./SLASH_.*'", ",", SP, "-- Setting an undefined (Slash handler) global variable", NL>>,
        <<IND, "'11./BINDING_.*'", ",", SP, "-- Setting an undefined (Keybinding header) global variable", NL>>,
        <<IND, "'113/LE_.*'", ",", SP, "-- Accessing an undefined (Lua ENUM type) global variable", NL>>,
        <<IND, "'113/NUM_LE_.*'", ",", SP, "-- Accessing an undefined (Lua ENUM type) global variable", NL>>,
        <<IND, "'211'", ",", SP, "-- Unused local variable", NL>>,
        <<IND, "'211/L'", ",", SP, "-- Unused local variable \"L\"", NL>>,
        <<IND, "'211/CL'", ",", SP, "-- Unused local variable \"CL\"", NL>>,
        <<IND, "'212'", ",", SP, "-- Unused argument", NL>>,
        <<IND, "'213'", ",", SP, "-- Unused loop variable", NL>>,
        <<IND, "'214'", ",", SP, "-- Unused hint", NL>>,
        <<IND, "-- '231', -- Set but never accessed", NL>>,
        <<IND, "'311'", ",", SP, "-- Value assigned to a local variable is unused", NL>>,
        <<IND, "'314'", ",", SP, "-- Value of a field in a table literal is unused", NL>>,
        <<IND, "'42.'", ",", SP, "-- Shadowing a local variable, an argument, a loop variable.", NL>>,
        <<IND, "'43.'", ",", SP, "-- Shadowing an upvalue, an upvalue argument, an upvalue loop variable.", NL>>,
        <<IND, "'542'", ",", SP, "-- An empty if branch", NL>>,
        <<IND, "'581'", ",", SP, "-- Error-prone operator orders", NL>>,
        <<IND, "'582'", ",", SP, "-- Error-prone operator orders", NL>>
    >>)

\* DEFAULT_LUACHECKRC_CONTENT, braces as tokens of their own: str.format
\* reads them.
DEFAULT_LUACHECKRC_CONTENT ==
    <<NL, STD_LINE, NL, MAXLEN_LINE, NL,
      EXCLUDE_KEY, SP, "{", EXCLUDE_BODY, "}", NL,
      IGNORE_KEY, SP, "{", NL>>
    \o DefaultIgnoreLines
    \o <<"}", NL, NL, "{", "globals_placeholder", "}", NL>>

\* tpl.format(name=value): "{{" and "}}" are literal braces, "{field}" is
\* looked up among the keyword arguments (KeyError when it is not one), a "}"
\* alone or a "{" never closed is a ValueError. The exception ends the call:
\* ok is FALSE and err names it.
RECURSIVE str_format(_, _, _)
str_format(tpl, name, value) ==
    IF tpl = <<>> THEN [ok |-> TRUE, err |-> "", text |-> <<>>]
    ELSE IF Head(tpl) = "{"
    THEN IF Len(tpl) >= 2 /\ tpl[2] = "{"
         THEN LET rest == str_format(SubSeq(tpl, 3, Len(tpl)), name, value)
              IN [rest EXCEPT !.text = <<"{">> \o @]
         ELSE LET close == Find(tpl, "}")
              IN IF close = 0
                 THEN [ok |-> FALSE, err |-> "ValueError", text |-> <<>>]
                 ELSE IF SubSeq(tpl, 2, close - 1) # <<name>>
                 THEN [ok |-> FALSE, err |-> "KeyError", text |-> <<>>]
                 ELSE LET rest == str_format(SubSeq(tpl, close + 1, Len(tpl)), name, value)
                      IN [rest EXCEPT !.text = value \o @]
    ELSE IF Head(tpl) = "}"
    THEN IF Len(tpl) >= 2 /\ tpl[2] = "}"
         THEN LET rest == str_format(SubSeq(tpl, 3, Len(tpl)), name, value)
              IN [rest EXCEPT !.text = <<"}">> \o @]
         ELSE [ok |-> FALSE, err |-> "ValueError", text |-> <<>>]
    ELSE LET rest == str_format(Tail(tpl), name, value)
         IN [rest EXCEPT !.text = <<Head(tpl)>> \o @]

\* A file of the repository: whether it exists, and its content.
Absent == [exists |-> FALSE, text |-> <<>>]
File(text) == [exists |-> TRUE, text |-> text]

\* A faulty update_luacheckrc: the new block is appended to the whole
\* document, an existing block left in place.
update_luacheckrc_append(globals_dict, f) ==
    IF ~f.exists
    THEN [raised |-> "KeyError", wrote |-> FALSE, file |-> f]
    ELSE [raised |-> "", wrote |-> TRUE,
          file |-> File(rstrip(f.text) \o <<NL, NL>>
                        \o GlobalsBlock(globals_dict) \o <<NL>>)]

\* update_luacheckrc(globals_dict) on the file f at LUACHECKRC_PATH: whether
\* the call returns (raised is the exception otherwise), whether it wrote the
\* file, and the file afterwards.
update_luacheckrc(globals_dict, f) ==
    LET new_globals_block == GlobalsBlock(globals_dict)
    IN IF ~f.exists
       THEN LET full == str_format(lstrip(DEFAULT_LUACHECKRC_CONTENT),
                                   "globals_placeholder", new_globals_block)
            IN IF full.ok
               THEN [raised |-> "", wrote |-> TRUE, file |-> File(full.text)]
               ELSE [raised |-> full.err, wrote |-> FALSE, file |-> f]
       ELSE LET content == f.text
                globals_start_index == Find(content, GLOBALS_OPEN)
                base_content == IF globals_start_index # 0
                                THEN SubSeq(content, 1, globals_start_index - 1)
                                ELSE content
                new_content == rstrip(base_content) \o <<NL, NL>>
                               \o new_globals_block \o <<NL>>
            IN [raised |-> "", wrote |-> TRUE, file |-> File(new_content)]

(***************************************************************************)
(* generate_wow_globals.py: the three renderers and write_if_changed.      *)
(***************************************************************************)
\* ignore_patterns of generate_luacheckrc_content.
ignore_patterns ==
    <<"'11./SLASH_.*'", "'11./BINDING_.*'", "'113/LE_.*'", "'113/NUM_LE_.*'", "'211'", "'211/L'", "'211/CL'", "'212'", "'213'", "'214'", "'311'", "'314'", "'42.'", "'43.'", "'542'", "'581'", "'582'">>

\* The lines "    '<name>'," of a list of names.
QuotedLines(names, quote) ==
    Concat([i \in DOMAIN names |->
               <<IND, quote>> \o names[i] \o <<quote, ",", NL>>])

\* generate_luacheckrc_content(globals_list), globals_list iterated as it.
generate_luacheckrc_content(it) ==
    <<STD_LINE, NL, MAXLEN_LINE, NL,
      EXCLUDE_KEY, SP, "{", EXCLUDE_BODY, "}", NL, NL,
      GLOBALS_OPEN, NL>>
    \o QuotedLines(sorted(it), "'")
    \o <<"}", NL, NL, IGNORE_KEY, SP, "{", NL>>
    \o Concat([i \in DOMAIN ignore_patterns |-> <<IND, ignore_patterns[i], ",", NL>>])
    \o <<"}", NL>>

\* generate_wow_globals_lua(globals_list)
generate_wow_globals_lua(it) ==
    <<"-- Auto-generated by scripts/generate_wow_globals.py", NL, GLOBALS_OPEN, NL>>
    \o QuotedLines(sorted(it), "\"")
    \o <<"}", NL>>

\* json.dumps of one str: the quote and the backslash are escaped.
RECURSIVE JsonStr(_)
JsonStr(name) ==
    IF name = <<>> THEN <<>>
    ELSE (IF Head(name) = "\"" THEN <<"\\", "\"">>
          ELSE IF Head(name) = "\\" THEN <<"\\", "\\">>
          ELSE <<Head(name)>>) \o JsonStr(Tail(name))

\* generate_wow_globals_json(globals_list): json.dumps(sorted, indent=2) + "\n"
generate_wow_globals_json(it) ==
    LET names == sorted(it)
    IN IF names = <<>> THEN <<"[]", NL>>
       ELSE <<"[", NL>>
            \o Join(<<",", NL>>,
                    [i \in DOMAIN names |-> <<"  ", "\"">> \o JsonStr(names[i]) \o <<"\"">>])
            \o <<NL, "]", NL>>

\* write_if_changed(path, content) on the file f at path: whether it wrote,
\* and the file afterwards.
write_if_changed(f, content) ==
    IF f.exists /\ f.text = content
    THEN [wrote |-> FALSE, file |-> f]
    ELSE [wrote |-> TRUE, file |-> File(content)]


(***************************************************************************)
(* The line parsers.                                                       *)
(***************************************************************************)
Quotes == {"\"", "'"}
\* [A-Z0-9_]
UpperChars == {"1", "A", "B", "C", "E", "L", "U", "Z", "_"}

\* s.startswith(prefix)
startswith(s, prefix) ==
    Len(s) >= Len(prefix) /\ SubSeq(s, 1, Len(prefix)) = prefix

\* The match of ^\s*["\']([^"\']+)["\'],?\s*$ on a stripped line: group(1),
\* or <<>> when the line does not match (the group is never empty).
TableStringMatch(line) ==
    LET n == Len(line)
        e == IF n >= 1 /\ line[n] = "," THEN n - 1 ELSE n
    IN IF /\ e >= 3
          /\ line[1] \in Quotes
          /\ line[e] \in Quotes
          /\ \A i \in 2..(e - 1) : line[i] \notin Quotes
       THEN SubSeq(line, 2, e - 1)
       ELSE <<>>

\* parse_table_of_strings(content), content given as its lines.
RECURSIVE parse_table_of_strings(_)
parse_table_of_strings(lines) ==
    IF lines = <<>> THEN <<>>
    ELSE LET before == parse_table_of_strings(SubSeq(lines, 1, Len(lines) - 1))
             line == strip(lines[Len(lines)])
         IN IF startswith(line, <<"-", "-">>) \/ line = <<>> THEN before
            ELSE IF TableStringMatch(line) # <<>>
            THEN SetItem(before, TableStringMatch(line), PyTrue)
            ELSE before

\* The longest prefix of s made of characters of cls.
RECURSIVE TakeWhile(_, _)
TakeWhile(s, cls) ==
    IF s = <<>> \/ Head(s) \notin cls THEN <<>>
    ELSE <<Head(s)>> \o TakeWhile(Tail(s), cls)

\* The match of ^([A-Z0-9_]+)\s*= on a line: group(1), or <<>>.
AssignmentMatch(line) ==
    LET name == TakeWhile(line, UpperChars)
        rest == lstrip(SubSeq(line, Len(name) + 1, Len(line)))
    IN IF name # <<>> /\ rest # <<>> /\ Head(rest) = "=" THEN name ELSE <<>>

\* parse_global_assignments(content), content given as its lines.
RECURSIVE parse_global_assignments(_)
parse_global_assignments(lines) ==
    IF lines = <<>> THEN <<>>
    ELSE LET before == parse_global_assignments(SubSeq(lines, 1, Len(lines) - 1))
             name == AssignmentMatch(lines[Len(lines)])
         IN IF name # <<>> THEN SetItem(before, name, PyTrue) ELSE before

\* read_custom_globals() on custom_globals.txt, given as its lines: the set of
\* names (the caller has checked that the file exists).
read_custom_globals(lines) ==
    {strip(lines[i]) : i \in {j \in DOMAIN lines :
        LET s == strip(lines[j]) IN s # <<>> /\ ~startswith(s, <<"#">>)}}


(***************************************************************************)
(* The custom file, read by each script's reader.                          *)
(***************************************************************************)
\* Lines a user writes in a custom globals file.
CustomLineSamples ==
    { <<"A", "b">>,                                  \* Ab
      <<" ", "A", "b", " ">>,                        \*  Ab
      <<"\"", "A", "b", "\"">>,                      \* "Ab"
      <<"\"", "Z", "\"", ",">>,                      \* "Z",
      <<"C", "_", "A", ".", "a">>,                   \* C_A.a
      <<"'", "C", "_", "A", ".", "a", "'", ",">>,    \* 'C_A.a',
      <<"#", " ", "a">>,                             \* # a
      <<" ", "-", "-", " ", "a">>,                   \*  -- a
      <<" ">> }                                      \* a blank line

RECURSIVE LinesUpTo(_)
LinesUpTo(n) ==
    IF n = 0 THEN {<<>>}
    ELSE LinesUpTo(n - 1)
         \cup {Append(f, l) : f \in {g \in LinesUpTo(n - 1) : Len(g) = n - 1},
                              l \in CustomLineSamples}

CustomInit ==
    /\ clines \in LinesUpTo(MaxCustomLines)
    /\ cread = {}
    /\ from_lua = <<>>
    /\ from_txt = {}

\* update_globals.py reads the file: parse_table_of_strings(f.read()).
ReadAsLua ==
    /\ "lua" \notin cread
    /\ from_lua' = parse_table_of_strings(clines)
    /\ cread' = cread \cup {"lua"}
    /\ UNCHANGED <<clines, from_txt>>
    /\ UNCHANGED notCustom

\* generate_wow_globals.py reads the file: read_custom_globals().
ReadAsTxt ==
    /\ "txt" \notin cread
    /\ from_txt' = read_custom_globals(clines)
    /\ cread' = cread \cup {"txt"}
    /\ UNCHANGED <<clines, from_lua>>
    /\ UNCHANGED notCustom

(***************************************************************************)
(* A dict filled in some order, and what the emitters render from it.      *)
(***************************************************************************)
\* The entries a Registry can hold.
EmitEntries ==
    {Item(s_a, PyTrue), Item(s_Z, PyTrue), Item(s_Ab, PyTrue),
     Item(s_C_A, Structured(FieldSet)),
     Item(s_Enum, PyDict(<<Item(s_Ba, Structured({s_a})), Item(s_Ab, Structured(FieldSet))>>)),
     Item(s_Enum, PyDict(<<Item(s_Ab, Structured(FieldSet)), Item(s_Ba, Structured({s_a}))>>))}

\* d.keys() in iteration order: also the order a set of the same names, filled
\* in the same order, may iterate in.
KeyOrder(d) == [i \in DOMAIN d |-> d[i].k]

NoOutput == [block |-> <<>>, rc |-> <<>>, lua |-> <<>>, json |-> <<>>, done |-> FALSE]

EmitInit ==
    /\ edict = <<>>
    /\ eparts = <<>>
    /\ eout = NoOutput

\* One more entry reaches the Registry.
EmitInsert ==
    /\ ~eout.done
    /\ Len(edict) < MaxInserts
    /\ \E e \in EmitEntries :
          /\ e.k \notin Keys(edict)
          /\ edict' = Append(edict, e)
    /\ UNCHANGED <<eparts, eout>>
    /\ UNCHANGED notEmit

\* Every emitter renders the Registry.
EmitRender ==
    /\ ~eout.done
    /\ eout' = [block |-> GlobalsBlock(edict),
                rc |-> generate_luacheckrc_content(KeyOrder(edict)),
                lua |-> generate_wow_globals_lua(KeyOrder(edict)),
                json |-> generate_wow_globals_json(KeyOrder(edict)),
                done |-> TRUE]
    /\ eparts' = format_globals_recursive(edict, 1)
    /\ UNCHANGED edict
    /\ UNCHANGED notEmit


(***************************************************************************)
(* A whole file as one string, and the regular expressions read over it.   *)
(***************************************************************************)
Upper == {"A", "B", "C", "D", "E", "F", "G", "H", "I", "J", "K", "L", "M",
          "N", "O", "P", "Q", "R", "S", "T", "U", "V", "W", "X", "Y", "Z"}
Lower == {"a", "b", "c", "d", "e", "f", "g", "h", "i", "j", "k", "l", "m",
          "n", "o", "p", "q", "r", "s", "t", "u", "v", "w", "x", "y", "z"}
Digits == {"0", "1", "2", "3", "4", "5", "6", "7", "8", "9"}
\* [A-Za-z0-9_]
IdChars == Upper \cup Lower \cup Digits \cup {"_"}
\* [A-Z0-9_]
UpperIdChars == Upper \cup Digits \cup {"_"}
\* \s
WS == {" ", "\n", "\t"}

\* The characters of a word of the source.
Chars(w) ==
    CASE w = "fields" -> <<"f", "i", "e", "l", "d", "s">>
      [] w = "function" -> <<"f", "u", "n", "c", "t", "i", "o", "n">>
      [] w = "local" -> <<"l", "o", "c", "a", "l">>
      [] w = "GlobalAPI" -> <<"G", "l", "o", "b", "a", "l", "A", "P", "I">>
      [] w = "LuaAPI" -> <<"L", "u", "a", "A", "P", "I">>
      [] w = "Enum" -> <<"E", "n", "u", "m">>
      [] w = "Constants" -> <<"C", "o", "n", "s", "t", "a", "n", "t", "s">>
      [] w = "C_" -> <<"C", "_">>
      [] w = "LE_" -> <<"L", "E", "_">>
      [] w = "NUM_" -> <<"N", "U", "M", "_">>

\* The literal lit stands in t at index p.
LitAt(t, p, lit) ==
    p + Len(lit) - 1 <= Len(t) /\ SubSeq(t, p, p + Len(lit) - 1) = lit

\* A greedy run of a character class from index p: the index after it.
SkipClass(t, p, cls) ==
    IF \E j \in p..Len(t) : t[j] \notin cls
    THEN CHOOSE j \in p..Len(t) :
            t[j] \notin cls /\ \A k \in p..(j - 1) : t[k] \in cls
    ELSE Len(t) + 1

\* The first index from p on that holds a character of cls, 0 when none.
FirstOf(t, p, cls) ==
    IF \E j \in p..Len(t) : t[j] \in cls
    THEN CHOOSE j \in p..Len(t) :
            t[j] \in cls /\ \A k \in p..(j - 1) : t[k] \notin cls
    ELSE 0

\* ^ under re.MULTILINE: the start of the string or of a line.
AtLineStart(t, p) == p = 1 \/ (p - 1 <= Len(t) /\ t[p - 1] = "\n")

\* \s*=\s*\{ at index p: the index after the brace, 0 when it does not match.
AssignOpenAt(t, p) ==
    LET c == SkipClass(t, p, WS)
        d == SkipClass(t, c + 1, WS)
    IN IF c <= Len(t) /\ t[c] = "=" /\ d <= Len(t) /\ t[d] = "{"
       THEN d + 1 ELSE 0

\* (.*?)\} from index e under re.DOTALL: the index of the first closing
\* brace, 0 when there is none.
CloseFrom(t, e) == FirstOf(t, e, {"}"})

\* finditer of ['"]([^'"]+)['"] over u: the groups, in order.
RECURSIVE string_pattern(_, _)
string_pattern(u, pos) ==
    LET i == FirstOf(u, pos, Quotes)
        j == IF i = 0 THEN 0 ELSE FirstOf(u, i + 1, Quotes)
    IN IF i = 0 \/ j = 0 THEN <<>>
       ELSE IF j = i + 1 THEN string_pattern(u, i + 1)
       ELSE <<SubSeq(u, i + 1, j - 1)>> \o string_pattern(u, j + 1)

\* The least index p from pos on where M(t, p) matches (its end, the index
\* after the match, is not 0); 0 when no index matches.
FirstMatch(t, pos, M(_, _)) ==
    IF \E p \in pos..Len(t) : M(t, p).end # 0
    THEN CHOOSE p \in pos..Len(t) :
            M(t, p).end # 0 /\ \A q \in pos..(p - 1) : M(t, q).end = 0
    ELSE 0

NoMatch == [end |-> 0, name |-> <<>>, body |-> <<>>]

(***************************************************************************)
(* update_globals.py: parse_api_definitions.                               *)
(***************************************************************************)
\* ^\s*(C_[A-Za-z0-9_]+)\s*=\s*\{.*?fields\s*=\s*\{(.*?)\} at index p, under
\* re.DOTALL | re.MULTILINE: the two groups and the index after the match.
c_table_pattern(t, p) ==
    LET a == SkipClass(t, p, WS)
        b == SkipClass(t, a + 2, IdChars)
        d == AssignOpenAt(t, b)
        FieldsAt(u, q) ==
            [end |-> IF LitAt(u, q, Chars("fields"))
                     THEN AssignOpenAt(u, q + 6) ELSE 0]
        q == IF d = 0 THEN 0 ELSE FirstMatch(t, d, FieldsAt)
        e == IF q = 0 THEN 0 ELSE FieldsAt(t, q).end
        r == IF e = 0 THEN 0 ELSE CloseFrom(t, e)
    IN IF /\ AtLineStart(t, p)
          /\ LitAt(t, a, Chars("C_"))
          /\ b > a + 2
          /\ r # 0
       THEN [end |-> r + 1, name |-> SubSeq(t, a, b - 1), body |-> SubSeq(t, e, r - 1)]
       ELSE NoMatch

\* ^\s*function\s+([A-Za-z0-9_:]+) at index p; body is group(1).
function_pattern(t, p) ==
    LET a == SkipClass(t, p, WS)
        b == SkipClass(t, a + 8, WS)
        c == SkipClass(t, b, IdChars \cup {":"})
    IN IF /\ AtLineStart(t, p)
          /\ LitAt(t, a, Chars("function"))
          /\ b > a + 8
          /\ c > b
       THEN [end |-> c, name |-> SubSeq(t, b, c - 1), body |-> <<>>]
       ELSE NoMatch

\* ^\s*local\s+(?:GlobalAPI|LuaAPI)\s*=\s*\{(.*?)\} at index p.
local_api_pattern(t, p) ==
    LET a == SkipClass(t, p, WS)
        b == SkipClass(t, a + 5, WS)
        c == IF LitAt(t, b, Chars("GlobalAPI")) THEN b + 9
             ELSE IF LitAt(t, b, Chars("LuaAPI")) THEN b + 6 ELSE 0
        e == IF c = 0 THEN 0 ELSE AssignOpenAt(t, c)
        r == IF e = 0 THEN 0 ELSE CloseFrom(t, e)
    IN IF /\ AtLineStart(t, p)
          /\ LitAt(t, a, Chars("local"))
          /\ b > a + 5
          /\ r # 0
       THEN [end |-> r + 1, name |-> <<>>, body |-> SubSeq(t, e, r - 1)]
       ELSE NoMatch

\* What the pattern M gives at each index of t.
MatchesOf(t, M(_, _)) == [p \in 1..Len(t) |-> M(t, p)]

\* pattern.finditer(content), given what the pattern matches at each index:
\* the leftmost match from pos on, then the matches after its end.
RECURSIVE finditer(_, _)
finditer(ms, pos) ==
    LET hits == {p \in pos..Len(ms) : ms[p].end # 0}
    IN IF hits = {} THEN <<>>
       ELSE LET p == CHOOSE h \in hits : \A q \in hits : h <= q
            IN <<ms[p]>> \o finditer(ms, ms[p].end)

\* name.split(':')[0]
SplitColon(name) ==
    IF FirstOf(name, 1, {":"}) = 0 THEN name
    ELSE SubSeq(name, 1, FirstOf(name, 1, {":"}) - 1)

\* globals_map[table_name]['fields'].add(field) for each string of each
\* match: the map as items [k, fields], a table entering it at its first
\* field.
RECURSIVE AddFields(_, _, _)
AddFields(gmap, name, strings) ==
    IF strings = <<>> THEN gmap
    ELSE LET now == IF name \in Keys(gmap)
                    THEN SetItem(gmap, name, Get(gmap, name) \cup {Head(strings)})
                    ELSE Append(gmap, Item(name, {Head(strings)}))
         IN AddFields(now, name, Tail(strings))

RECURSIVE TableFields(_, _)
TableFields(gmap, matches) ==
    IF matches = <<>> THEN gmap
    ELSE TableFields(AddFields(gmap, Head(matches).name,
                               string_pattern(Head(matches).body, 1)),
                     Tail(matches))

\* for s in simple_globals: if s not in globals_map: globals_map[s] = True,
\* and the conversion of the field sets to sorted lists.
RECURSIVE WithSimple(_, _)
WithSimple(d, names) ==
    IF names = <<>> THEN d
    ELSE WithSimple(IF Head(names) \in Keys(d) THEN d
                    ELSE Append(d, Item(Head(names), PyTrue)),
                    Tail(names))

\* parse_api_definitions(content)
parse_api_definitions(content) ==
    LET gmap == TableFields(<<>>, finditer(MatchesOf(content, c_table_pattern), 1))
        functions == finditer(MatchesOf(content, function_pattern), 1)
        apis == finditer(MatchesOf(content, local_api_pattern), 1)
        simple_globals ==
            {SplitColon(functions[i].name) : i \in DOMAIN functions}
            \cup UNION {Range(string_pattern(apis[i].body, 1)) : i \in DOMAIN apis}
        tables == [i \in DOMAIN gmap |-> Item(gmap[i].k, Structured(gmap[i].v))]
    IN WithSimple(tables, IterSet(simple_globals))

(***************************************************************************)
(* The API definition files parse_api_definitions is given.                *)
(***************************************************************************)
\* The names of the tables a file declares, in the order it declares them.
ApiTableNames == <<s_C_A, <<"C", "_", "B">>, <<"C", "_", "E">>, <<"C", "_", "L">>>>

\* What a table declaration holds: whether it has a fields block, the strings
\* of the block, and the strings that stand in the table after the block.
TableShapes ==
    {[block |-> FALSE, fields |-> <<>>, after |-> <<>>],
     [block |-> TRUE, fields |-> <<>>, after |-> <<>>],
     [block |-> TRUE, fields |-> <<s_a>>, after |-> <<>>],
     [block |-> TRUE, fields |-> <<s_Z, s_a>>, after |-> <<>>],
     [block |-> TRUE, fields |-> <<s_a>>, after |-> <<s_Z>>]}

\* The line `"name",` at an indentation.
StringLine(ind, name) == ind \o <<"\"">> \o name \o <<"\"", ",">>

\* The lines of one table declaration:
\*   C_A = {
\*    fields = {
\*     "a",
\*    },
\*    "Z",
\*   }
TableLines(name, sh) ==
    <<name \o <<" ", "=", " ", "{">>>>
    \o (IF sh.block
        THEN <<<<" ">> \o Chars("fields") \o <<" ", "=", " ", "{">>>>
             \o [i \in DOMAIN sh.fields |-> StringLine(<<" ", " ">>, sh.fields[i])]
             \o <<<<" ", "}", ",">>>>
        ELSE <<>>)
    \o [i \in DOMAIN sh.after |-> StringLine(<<" ">>, sh.after[i])]
    \o <<<<"}">>>>

\* The lines that declare plain globals:
\*   local GlobalAPI = {
\*    "b",
\*   }
\*   function Ab:a()
SimpleLines ==
    <<Chars("local") \o <<" ">> \o Chars("GlobalAPI") \o <<" ", "=", " ", "{">>,
      StringLine(<<" ">>, s_b),
      <<"}">>,
      Chars("function") \o <<" ">> \o s_Ab \o <<":", "a", "(", ")">>>>

\* The content of a file: its lines, each ended by a newline.
RECURSIVE Content(_)
Content(lines) ==
    IF lines = <<>> THEN <<>>
    ELSE Head(lines) \o <<"\n">> \o Content(Tail(lines))

\* An API file: the shapes of its tables in order, and whether it goes on to
\* declare plain globals.
RECURSIVE ApiLines(_, _)
ApiLines(tables, i) ==
    IF i > Len(tables) THEN <<>>
    ELSE TableLines(ApiTableNames[i], tables[i]) \o ApiLines(tables, i + 1)

ApiContent(file) ==
    Content(ApiLines(file.tables, 1) \o (IF file.simple THEN SimpleLines ELSE <<>>))

ApiFiles ==
    {[kind |-> "api", tables |-> ts, simple |-> sm] :
        ts \in UNION {[1..n -> TableShapes] : n \in 0..MaxTables},
        sm \in BOOLEAN}

(***************************************************************************)
(* update_globals.py: parse_enum_definitions.                              *)
(***************************************************************************)
\* ^\s*((?:NUM_)?LE_[A-Z0-9_]+)\s*= at index p, under re.MULTILINE.
le_pattern(t, p) ==
    LET a == SkipClass(t, p, WS)
        n == IF LitAt(t, a, Chars("NUM_")) THEN a + 4 ELSE a
        b == SkipClass(t, n + 3, UpperIdChars)
        c == SkipClass(t, b, WS)
    IN IF /\ AtLineStart(t, p)
          /\ LitAt(t, n, Chars("LE_"))
          /\ b > n + 3
          /\ c <= Len(t) /\ t[c] = "="
       THEN [end |-> c + 1, name |-> SubSeq(t, a, b - 1), body |-> <<>>]
       ELSE NoMatch

\* ^\s*(Enum|Constants)\s*=\s*\{(.*?)\} at index p, under
\* re.DOTALL | re.MULTILINE.
table_block_pattern(t, p) ==
    LET a == SkipClass(t, p, WS)
        c == IF LitAt(t, a, Chars("Enum")) THEN a + 4
             ELSE IF LitAt(t, a, Chars("Constants")) THEN a + 9 ELSE 0
        e == IF c = 0 THEN 0 ELSE AssignOpenAt(t, c)
        r == IF e = 0 THEN 0 ELSE CloseFrom(t, e)
    IN IF AtLineStart(t, p) /\ r # 0
       THEN [end |-> r + 1, name |-> SubSeq(t, a, c - 1), body |-> SubSeq(t, e, r - 1)]
       ELSE NoMatch

\* \s*([A-Z][A-Za-z0-9_]+)\s*=\s*\{(.*?)\} at index p, under re.DOTALL.
sub_table_pattern(t, p) ==
    LET a == SkipClass(t, p, WS)
        b == SkipClass(t, a + 1, IdChars)
        e == IF a <= Len(t) /\ t[a] \in Upper /\ b > a + 1
             THEN AssignOpenAt(t, b) ELSE 0
        r == IF e = 0 THEN 0 ELSE CloseFrom(t, e)
    IN IF r # 0
       THEN [end |-> r + 1, name |-> SubSeq(t, a, b - 1), body |-> SubSeq(t, e, r - 1)]
       ELSE NoMatch

\* ^\s*([A-Z][A-Za-z0-9_]+)\s*= at index p, under re.MULTILINE.
field_pattern(t, p) ==
    LET a == SkipClass(t, p, WS)
        b == SkipClass(t, a + 1, IdChars)
        c == SkipClass(t, b, WS)
    IN IF /\ AtLineStart(t, p)
          /\ a <= Len(t) /\ t[a] \in Upper
          /\ b > a + 1
          /\ c <= Len(t) /\ t[c] = "="
       THEN [end |-> c + 1, name |-> SubSeq(t, a, b - 1), body |-> <<>>]
       ELSE NoMatch

\* globals_map[parent_table][sub_table_name]['fields'].add(field): parent and
\* child enter the map at the first field.
AddEnumField(emap, parent, child, field) ==
    LET pm == IF parent \in Keys(emap) THEN Get(emap, parent) ELSE <<>>
        cm == IF child \in Keys(pm) THEN Get(pm, child) ELSE {}
    IN SetItem(emap, parent, SetItem(pm, child, cm \cup {field}))

RECURSIVE EnumFields(_, _, _, _)
EnumFields(emap, parent, child, fields) ==
    IF fields = <<>> THEN emap
    ELSE EnumFields(AddEnumField(emap, parent, child, Head(fields).name),
                    parent, child, Tail(fields))

RECURSIVE EnumSubTables(_, _, _)
EnumSubTables(emap, parent, subs) ==
    IF subs = <<>> THEN emap
    ELSE EnumSubTables(
            EnumFields(emap, parent, Head(subs).name,
                       finditer(MatchesOf(Head(subs).body, field_pattern), 1)),
            parent, Tail(subs))

RECURSIVE EnumBlocks(_, _)
EnumBlocks(emap, blocks) ==
    IF blocks = <<>> THEN emap
    ELSE EnumBlocks(
            EnumSubTables(emap, Head(blocks).name,
                          finditer(MatchesOf(Head(blocks).body, sub_table_pattern), 1)),
            Tail(blocks))

\* for s in simple_globals: globals_map[s] = True
RECURSIVE SetSimple(_, _)
SetSimple(d, names) ==
    IF names = <<>> THEN d
    ELSE SetSimple(SetItem(d, Head(names), PyTrue), Tail(names))

\* parse_enum_definitions(content)
parse_enum_definitions(content) ==
    LET les == finditer(MatchesOf(content, le_pattern), 1)
        simple_globals == {les[i].name : i \in DOMAIN les}
        emap == EnumBlocks(<<>>, finditer(MatchesOf(content, table_block_pattern), 1))
        final_map ==
            [i \in DOMAIN emap |->
                Item(emap[i].k,
                     PyDict([j \in DOMAIN emap[i].v |->
                        Item(emap[i].v[j].k, Structured(emap[i].v[j].v))]))]
    IN SetSimple(final_map, IterSet(simple_globals))

(***************************************************************************)
(* The enum files parse_enum_definitions is given.                         *)
(***************************************************************************)
s_E1 == <<"E", "1">>
s_U1 == <<"U", "1">>
\* The names of the child tables a file declares, in order.
EnumChildNames == <<s_Ab, s_Ba, <<"Z", "a">>, <<"L", "a">>>>
\* The fields a child table declares.
ChildShapes == {<<>>, <<s_E1>>, <<s_E1, s_U1>>}

\* The lines of one child table of the parent:
\*    Ab = {
\*     E1 = 1,
\*    },
ChildLines(name, fields) ==
    <<<<" ">> \o name \o <<" ", "=", " ", "{">>>>
    \o [i \in DOMAIN fields |-> <<" ", " ">> \o fields[i] \o <<" ", "=", " ", "1", ",">>]
    \o <<<<" ", "}", ",">>>>

RECURSIVE ChildrenLines(_, _)
ChildrenLines(children, i) ==
    IF i > Len(children) THEN <<>>
    ELSE ChildLines(EnumChildNames[i], children[i]) \o ChildrenLines(children, i + 1)

\* An enum file: whether it declares the constant LE_A, the parent table and
\* the fields of each of its child tables in order.
\*   LE_A = 1
\*   Enum = {
\*    Ab = {
\*     E1 = 1,
\*    },
\*   }
EnumContent(file) ==
    Content((IF file.le THEN <<s_LE_A \o <<" ", "=", " ", "1">>>> ELSE <<>>)
            \o <<Chars(file.parent) \o <<" ", "=", " ", "{">>>>
            \o ChildrenLines(file.children, 1)
            \o <<<<"}">>>>)

EnumFiles ==
    {[kind |-> "enum", parent |-> pa, children |-> cs, le |-> le] :
        pa \in {"Enum", "Constants"},
        cs \in UNION {[1..n -> ChildShapes] : n \in 0..MaxChildren},
        le \in BOOLEAN}

(***************************************************************************)
(* The files and the sources of a run.                                     *)
(***************************************************************************)
LUACHECKRC_PATH == ".luacheckrc"
OUTPUT_WOW_LUA == "wow_globals.lua"
OUTPUT_WOW_JSON == "wow_globals.json"
CUSTOM_GLOBALS_LUA == "custom_globals.lua"
CUSTOM_GLOBALS_TXT == "custom_globals.txt"
Paths == {LUACHECKRC_PATH, OUTPUT_WOW_LUA, OUTPUT_WOW_JSON,
          CUSTOM_GLOBALS_LUA, CUSTOM_GLOBALS_TXT}
OutputFiles == {LUACHECKRC_PATH, OUTPUT_WOW_LUA, OUTPUT_WOW_JSON}

\* RESOURCE_FILES in its order, each source with its parser.
RESOURCE_FILES ==
    <<[name |-> "FrameXML", parser |-> "parse_framemxml_globals"],
      [name |-> "GlobalStrings", parser |-> "parse_global_assignments"],
      [name |-> "Events", parser |-> "parse_table_of_strings"],
      [name |-> "Frames", parser |-> "parse_table_of_strings"],
      [name |-> "GlobalAPI", parser |-> "parse_api_definitions"],
      [name |-> "LuaEnum", parser |-> "parse_enum_definitions"],
      [name |-> "Mixins", parser |-> "parse_table_of_strings"]>>

\* The body a source answers with when its download succeeds: the lines of
\* the three line-parsed kinds of file.
ResponseLines(name) ==
    CASE name = "GlobalStrings" ->
            << <<"U", "_", "1", " ", "=", " ", "\"", "a", "\"">>,
               <<"a", " ", "=", " ", "1">> >>
      [] name = "Events" ->
            << <<"-", "-", " ", "a">>,
               <<" ", "\"", "E", "_", "1", "\"", ",">> >>
      [] name = "Frames" ->
            << <<"\"", "A", "b", "\"", ",">> >>
      [] name = "Mixins" ->
            << <<"\"", "B", "a", "\"", ",">>, <<"}">> >>
      [] OTHER -> <<>>

\* The bodies of the sources read as one string:
\*   GlobalAPI  C_A = { fields = { "Z", }, }   local GlobalAPI = { "b", }
\*   LuaEnum    LE_A = 1   Enum = { Ab = { E1 = 1, }, }
ResponseText(name) ==
    CASE name = "GlobalAPI" ->
            Content(TableLines(s_C_A, [block |-> TRUE, fields |-> <<s_Z>>, after |-> <<>>])
                    \o SubSeq(SimpleLines, 1, 3))
      [] name = "LuaEnum" ->
            EnumContent([kind |-> "enum", parent |-> "Enum",
                         children |-> <<<<s_E1>>>>, le |-> TRUE])
      [] OTHER -> <<>>

\* found_globals = parser_func(response.text) for each source.
\* parse_framemxml_globals is given by what it returns on the sample file
\*   local FrameXML = { "C_A.a", "Ab", }
found_globals(src) ==
    CASE src.parser = "parse_table_of_strings" ->
            parse_table_of_strings(ResponseLines(src.name))
      [] src.parser = "parse_global_assignments" ->
            parse_global_assignments(ResponseLines(src.name))
      [] src.parser = "parse_framemxml_globals" ->
            <<Item(s_C_A, Structured({s_a})), Item(s_Ab, PyTrue)>>
      [] src.parser = "parse_api_definitions" ->
            parse_api_definitions(ResponseText(src.name))
      [] src.parser = "parse_enum_definitions" ->
            parse_enum_definitions(ResponseText(src.name))

\* The sources of generate_wow_globals.main in its order, and the names each
\* yields when its fetch succeeds (FrameXML: the .lua globals and the .xml
\* names of the one archive).
GEN_SOURCES == <<"API", "FrameXML", "GlobalStrings">>
gen_found(name) ==
    CASE name = "API" -> {s_Ab, s_b}
      [] name = "FrameXML" -> {s_Ba} \cup {s_Z}
      [] name = "GlobalStrings" -> {<<"U", "_", "1">>}

\* The directives of the default document, as a user keeps them by hand.
Preamble ==
    LET t == lstrip(DEFAULT_LUACHECKRC_CONTENT)
    IN SubSeq(t, 1, Find(t, "globals_placeholder") - 2)

\* The .luacheckrc a run can find: none, the directives alone, the directives
\* followed by a globals block, and the document generate_wow_globals wrote.
InitialLuacheckrc ==
    {Absent,
     File(Preamble),
     File(rstrip(Preamble) \o <<NL, NL>> \o GlobalsBlock(<<Item(s_Ab, PyTrue)>>) \o <<NL>>),
     File(generate_luacheckrc_content(<<s_Ab>>))}

\* The custom files a run can find: none, comments only, one symbol.
InitialCustom ==
    {[lua |-> Absent, txt |-> Absent],
     [lua |-> File(<< <<"-", "-", " ", "a">> >>), txt |-> File(<< <<"#", " ", "a">> >>)],
     [lua |-> File(<< <<"\"", "g", "\"", ",">> >>), txt |-> File(<< <<"g">> >>)]}

\* The two data exports a run can find: none, or those of an earlier run.
InitialExports ==
    {[lua |-> Absent, json |-> Absent],
     [lua |-> File(generate_wow_globals_lua(<<s_Ab>>)),
      json |-> File(generate_wow_globals_json(<<s_Ab>>))]}

NoOp == [by |-> "none", path |-> "none", existed |-> FALSE, wrote |-> FALSE,
         raised |-> "", before |-> <<>>, after |-> <<>>]

RunInit ==
    /\ pc = "idle"
    /\ idx = 0
    /\ all_globals = <<>>
    /\ gen_globals = {}
    /\ fetchlog = <<>>
    /\ \E rc \in InitialLuacheckrc, cu \in InitialCustom, ex \in InitialExports :
          fs = [p \in Paths |->
                  CASE p = LUACHECKRC_PATH -> rc
                    [] p = OUTPUT_WOW_LUA -> ex.lua
                    [] p = OUTPUT_WOW_JSON -> ex.json
                    [] p = CUSTOM_GLOBALS_LUA -> cu.lua
                    [] p = CUSTOM_GLOBALS_TXT -> cu.txt]
    /\ lastOp = NoOp
    /\ emits = 0


(***************************************************************************)
(* update_globals.main: fetch_and_parse_all, then update_luacheckrc.       *)
(***************************************************************************)
NSources == Len(RESOURCE_FILES)

\* main() of update_globals.py is started: all_globals = {}.
StartUpdate ==
    /\ pc = "idle"
    /\ pc' = "u_fetch"
    /\ idx' = 1
    /\ all_globals' = <<>>
    /\ UNCHANGED <<gen_globals, fetchlog, fs, lastOp, emits>>
    /\ UNCHANGED notRun

\* One turn of the loop over RESOURCE_FILES whose download succeeds: the body
\* is parsed and merged.
FetchOk ==
    /\ pc = "u_fetch"
    /\ idx <= NSources
    /\ LET src == RESOURCE_FILES[idx]
           found == found_globals(src)
       IN /\ all_globals' = merge_globals(all_globals, found)
          /\ fetchlog' = Append(fetchlog,
                [src |-> src.name, ok |-> TRUE])
    /\ idx' = idx + 1
    /\ UNCHANGED <<pc, gen_globals, fs, lastOp, emits>>
    /\ UNCHANGED notRun

\* A faulty FetchFailed: the failure ends the run instead of the turn.
FetchFailed_abort ==
    /\ pc = "u_fetch"
    /\ idx <= NSources
    /\ fetchlog' = Append(fetchlog,
            [src |-> RESOURCE_FILES[idx].name, ok |-> FALSE])
    /\ pc' = "exit1"
    /\ UNCHANGED <<idx, all_globals, gen_globals, fs, lastOp, emits>>
    /\ UNCHANGED notRun

\* One turn of the loop whose download raises RequestException: a warning,
\* and the loop continues with the next source.
FetchFailed ==
    /\ pc = "u_fetch"
    /\ idx <= NSources
    /\ fetchlog' = Append(fetchlog,
            [src |-> RESOURCE_FILES[idx].name, ok |-> FALSE])
    /\ idx' = idx + 1
    /\ UNCHANGED <<pc, all_globals, gen_globals, fs, lastOp, emits>>
    /\ UNCHANGED notRun

\* The first line of the custom file fetch_and_parse_all creates.
CUSTOM_TEMPLATE == << <<"-", "-", " Add your own custom global variables here.">> >>

\* After the loop: the custom file is read and merged, or created when it is
\* missing; then an empty all_globals ends the run with exit(1).
ReadCustom ==
    /\ pc = "u_fetch"
    /\ idx > NSources
    /\ LET f == fs[CUSTOM_GLOBALS_LUA]
           merged == IF f.exists
                     THEN merge_globals(all_globals, parse_table_of_strings(f.text))
                     ELSE all_globals
       IN /\ all_globals' = merged
          /\ fs' = IF f.exists THEN fs
                   ELSE [fs EXCEPT ![CUSTOM_GLOBALS_LUA] = File(CUSTOM_TEMPLATE)]
          /\ lastOp' = IF f.exists THEN lastOp
                       ELSE [by |-> "fetch_and_parse_all", path |-> CUSTOM_GLOBALS_LUA,
                             existed |-> FALSE, wrote |-> TRUE, raised |-> "",
                             before |-> <<>>, after |-> CUSTOM_TEMPLATE]
          /\ pc' = IF merged = <<>> THEN "exit1" ELSE "u_emit"
    /\ UNCHANGED <<idx, gen_globals, fetchlog, emits>>
    /\ UNCHANGED notRun

\* update_luacheckrc(extracted_globals): the call main makes, and the same
\* call made again with the same Registry.
UpdateLuacheckrc ==
    /\ pc = "u_emit" \/ (pc = "u_done" /\ emits < MaxEmits)
    /\ LET f == fs[LUACHECKRC_PATH]
           r == update_luacheckrc(all_globals, f)
       IN /\ fs' = [fs EXCEPT ![LUACHECKRC_PATH] = r.file]
          /\ lastOp' = [by |-> "update_luacheckrc", path |-> LUACHECKRC_PATH,
                        existed |-> f.exists, wrote |-> r.wrote, raised |-> r.raised,
                        before |-> f.text, after |-> r.file.text]
          /\ pc' = IF r.raised # "" THEN "raised" ELSE "u_done"
    /\ emits' = emits + 1
    /\ UNCHANGED <<idx, all_globals, gen_globals, fetchlog>>
    /\ UNCHANGED notRun

(***************************************************************************)
(* generate_wow_globals.main.                                              *)
(***************************************************************************)
\* main() of generate_wow_globals.py is started: all_globals = set().
StartGenerate ==
    /\ pc = "idle"
    /\ pc' = "g_fetch"
    /\ idx' = 1
    /\ gen_globals' = {}
    /\ UNCHANGED <<all_globals, fetchlog, fs, lastOp, emits>>
    /\ UNCHANGED notRun

\* One of the three try blocks whose fetch succeeds: all_globals |= found.
GenFetchOk ==
    /\ pc = "g_fetch"
    /\ idx <= Len(GEN_SOURCES)
    /\ gen_globals' = gen_globals \cup gen_found(GEN_SOURCES[idx])
    /\ fetchlog' = Append(fetchlog,
            [src |-> GEN_SOURCES[idx], ok |-> TRUE])
    /\ idx' = idx + 1
    /\ UNCHANGED <<pc, all_globals, fs, lastOp, emits>>
    /\ UNCHANGED notRun

\* One of the three try blocks whose fetch raises: the except clause prints
\* and main goes on.
GenFetchFailed ==
    /\ pc = "g_fetch"
    /\ idx <= Len(GEN_SOURCES)
    /\ fetchlog' = Append(fetchlog,
            [src |-> GEN_SOURCES[idx], ok |-> FALSE])
    /\ idx' = idx + 1
    /\ UNCHANGED <<pc, all_globals, gen_globals, fs, lastOp, emits>>
    /\ UNCHANGED notRun

\* custom = read_custom_globals(); all_globals |= custom. The three contents
\* are rendered next.
GenReadCustom ==
    /\ pc = "g_fetch"
    /\ idx > Len(GEN_SOURCES)
    /\ gen_globals' = gen_globals \cup
            (IF fs[CUSTOM_GLOBALS_TXT].exists
             THEN read_custom_globals(fs[CUSTOM_GLOBALS_TXT].text)
             ELSE {})
    /\ pc' = "g_write"
    /\ idx' = 1
    /\ UNCHANGED <<all_globals, fetchlog, fs, lastOp, emits>>
    /\ UNCHANGED notRun

\* The three targets in the order main writes them, each with its content.
GenTargets ==
    <<[path |-> LUACHECKRC_PATH,
       content |-> generate_luacheckrc_content(IterSet(gen_globals))],
      [path |-> OUTPUT_WOW_LUA,
       content |-> generate_wow_globals_lua(IterSet(gen_globals))],
      [path |-> OUTPUT_WOW_JSON,
       content |-> generate_wow_globals_json(IterSet(gen_globals))]>>

\* One call of write_if_changed(path, content).
GenWrite ==
    /\ pc = "g_write"
    /\ LET t == GenTargets[idx]
           f == fs[t.path]
           r == write_if_changed(f, t.content)
       IN /\ fs' = [fs EXCEPT ![t.path] = r.file]
          /\ lastOp' = [by |-> "write_if_changed", path |-> t.path,
                        existed |-> f.exists, wrote |-> r.wrote, raised |-> "",
                        before |-> f.text, after |-> r.file.text]
    /\ idx' = IF idx < Len(GenTargets) THEN idx + 1 ELSE idx
    /\ pc' = IF idx < Len(GenTargets) THEN "g_write" ELSE "g_done"
    /\ UNCHANGED <<all_globals, gen_globals, fetchlog, emits>>
    /\ UNCHANGED notRun

\* main() run once more over sources that answer as before: the same
\* all_globals reaches the three writes again.
GenerateAgain ==
    /\ pc = "g_done"
    /\ emits < MaxEmits
    /\ pc' = "g_write"
    /\ idx' = 1
    /\ emits' = emits + 1
    /\ UNCHANGED <<all_globals, gen_globals, fetchlog, fs, lastOp>>
    /\ UNCHANGED notRun

(***************************************************************************)
(* A source file given to its parser.                                      *)
(***************************************************************************)
ParseInit ==
    /\ psrc \in ApiFiles \cup EnumFiles
    /\ pout = <<>>
    /\ pdone = FALSE

\* found_globals = parse_api_definitions(response.text)
ParseApi ==
    /\ psrc.kind = "api"
    /\ ~pdone
    /\ pout' = parse_api_definitions(ApiContent(psrc))
    /\ pdone' = TRUE
    /\ UNCHANGED psrc
    /\ UNCHANGED notParse

\* found_globals = parse_enum_definitions(response.text)
ParseEnum ==
    /\ psrc.kind = "enum"
    /\ ~pdone
    /\ pout' = parse_enum_definitions(EnumContent(psrc))
    /\ pdone' = TRUE
    /\ UNCHANGED psrc
    /\ UNCHANGED notParse

(***************************************************************************)
(* generate_wow_globals.py: cached_get and its caller                      *)
(* fetch_globalstrings_globals_ketho.                                      *)
(***************************************************************************)
\* The versions of enUS.lua the server publishes, each with its validators:
\*   1   U_1 = "a"  /  _G["Ab"] = 1  /  _G["a b"] = 1
\*   2   E_1 = "a"
ServerVersions == {1, 2}
ServerBody(v) ==
    IF v = 1
    THEN << <<"U", "_", "1", " ", "=", " ", "\"", "a", "\"", "\n">>,
            <<"_", "G", "[", "\"", "A", "b", "\"", "]", " ", "=", " ", "1", "\n">>,
            <<"_", "G", "[", "\"", "a", " ", "b", "\"", "]", " ", "=", " ", "1", "\n">> >>
    ELSE << <<"E", "_", "1", " ", "=", " ", "\"", "a", "\"", "\n">> >>
ServerETag(v) == IF v = 1 THEN "e1" ELSE "e2"
ServerLastModified(v) == IF v = 1 THEN "d1" ELSE "d2"

\* The .meta file: absent, or the JSON object of the stored validators ("" for
\* a key the object does not hold).
NoMeta == [exists |-> FALSE, etag |-> "", last_modified |-> ""]
Meta(etag, lm) == [exists |-> TRUE, etag |-> etag, last_modified |-> lm]

\* headers: the conditional request headers cached_get builds from the .meta
\* file ("" for a header it does not send).
RequestHeaders(meta) ==
    [if_none_match |-> IF meta.exists THEN meta.etag ELSE "",
     if_modified_since |-> IF meta.exists THEN meta.last_modified ELSE ""]

\* The responses of the server at version v.
\* 200 carries the body, with or without each validator; complete tells
\* whether the stream delivers the whole body or breaks off.
Responses200(v) ==
    {[status |-> 200, body |-> ServerBody(v), etag |-> e, last_modified |-> lm,
      complete |-> c] :
        e \in {"", ServerETag(v)}, lm \in {"", ServerLastModified(v)},
        c \in BOOLEAN}
\* 304 carries no body; the server sends it when a validator of the request
\* is that of its version.
Responses304(v, headers) ==
    IF \/ headers.if_none_match = ServerETag(v)
       \/ headers.if_modified_since = ServerLastModified(v)
    THEN {[status |-> 304, body |-> <<>>, etag |-> e, last_modified |-> "",
           complete |-> TRUE] : e \in {"", ServerETag(v)}}
    ELSE {}
\* An error: status 500, or no response at all (status 0, requests.get
\* raises).
ResponsesError ==
    {[status |-> st, body |-> <<>>, etag |-> "", last_modified |-> "",
      complete |-> TRUE] : st \in {0, 500}}

\* What of a body has arrived when the stream breaks off: its first chunk.
Partial(body) == SubSeq(body, 1, Len(body) - 1)

\* cached_get(url, cache_basename) given the response resp of the server and
\* whether the .meta file can be written: the three files after the call,
\* whether it raised, and the status it returned.
cached_get(cache, meta, tmp, resp, meta_writable) ==
    IF resp.status = 0
    THEN [raised |-> TRUE, status |-> 0, cache |-> cache, meta |-> meta, tmp |-> tmp]
    ELSE IF resp.status = 304 /\ cache.exists
    THEN [raised |-> FALSE, status |-> 304, cache |-> cache, meta |-> meta, tmp |-> tmp]
    ELSE IF resp.status # 200 /\ resp.status >= 400
    THEN [raised |-> TRUE, status |-> resp.status, cache |-> cache, meta |-> meta, tmp |-> tmp]
    ELSE IF ~resp.complete
    THEN [raised |-> TRUE, status |-> resp.status, cache |-> cache, meta |-> meta,
          tmp |-> File(Partial(resp.body))]
    ELSE [raised |-> FALSE, status |-> resp.status,
          cache |-> File(resp.body),
          meta |-> IF meta_writable THEN Meta(resp.etag, resp.last_modified) ELSE meta,
          tmp |-> Absent]

\* p_simple: ^\s*([A-Za-z0-9_]+)\s*= on a line; group(1), or <<>>.
p_simple(line) ==
    LET a == SkipClass(line, 1, WS)
        b == SkipClass(line, a, IdChars)
        c == SkipClass(line, b, WS)
    IN IF b > a /\ c <= Len(line) /\ line[c] = "=" THEN SubSeq(line, a, b - 1) ELSE <<>>

\* p_g: ^\s*_G\["([^"]+)"\]\s*= on a line; group(1), or <<>>.
p_g(line) ==
    LET a == SkipClass(line, 1, WS)
        q == FirstOf(line, a + 4, {"\""})
        c == SkipClass(line, q + 2, WS)
    IN IF /\ LitAt(line, a, <<"_", "G", "[", "\"">>)
          /\ q > a + 4
          /\ LitAt(line, q + 1, <<"]">>)
          /\ c <= Len(line) /\ line[c] = "="
       THEN SubSeq(line, a + 4, q - 1) ELSE <<>>

\* s.strip() of a string given by its characters.
StripWS(s) ==
    LET a == SkipClass(s, 1, WS)
    IN IF a > Len(s) THEN <<>>
       ELSE SubSeq(s, a, CHOOSE j \in a..Len(s) :
                            s[j] \notin WS /\ \A k \in (j + 1)..Len(s) : s[k] \in WS)

\* XML_NAME_ALLOWED.match(nm): ^[A-Za-z0-9_]+$
XML_NAME_ALLOWED(nm) == nm # <<>> /\ \A i \in DOMAIN nm : nm[i] \in IdChars

\* The names fetch_globalstrings_globals_ketho reads from the lines of the
\* file cached_get returned.
KethoNames(lines) ==
    {p_simple(lines[i]) : i \in {j \in DOMAIN lines : p_simple(lines[j]) # <<>>}}
    \cup {StripWS(p_g(lines[i])) : i \in {j \in DOMAIN lines :
            /\ p_simple(lines[j]) = <<>>
            /\ p_g(lines[j]) # <<>>
            /\ XML_NAME_ALLOWED(StripWS(p_g(lines[j])))}}

NoCall == [status |-> 0, raised |-> FALSE, returned |-> FALSE,
           file |-> Absent, expect |-> <<>>, met |-> NoMeta]

\* A fresh checkout: no cache, nothing fetched yet.
CacheInit ==
    /\ srv \in ServerVersions
    /\ cache_file = Absent
    /\ meta_file = NoMeta
    /\ tmp_file = Absent
    /\ last200 = <<>>
    /\ kcall = NoCall
    /\ kglobals = {}

\* fetch_globalstrings_globals_ketho() when the server answers resp: the call
\* of cached_get, then the names of the file it returned. last200 is the body
\* of the most recent 200 response that arrived whole; kcall records the call
\* with the files as it left them.
KethoFetch(resp, meta_writable) ==
    LET r == cached_get(cache_file, meta_file, tmp_file, resp, meta_writable)
        body200 == IF resp.status = 200 /\ resp.complete THEN resp.body ELSE last200
    IN /\ cache_file' = r.cache
       /\ meta_file' = r.meta
       /\ tmp_file' = r.tmp
       /\ last200' = body200
       /\ kcall' = [status |-> r.status, raised |-> r.raised, returned |-> ~r.raised,
                    file |-> r.cache, expect |-> body200, met |-> r.meta]
       /\ kglobals' = IF r.raised THEN kglobals
                      ELSE IF r.cache.exists THEN KethoNames(r.cache.text) ELSE {}
       /\ UNCHANGED srv
       /\ UNCHANGED notCache

\* The server answers 200 and the whole body arrives.
Fetch200 ==
    \E resp \in Responses200(srv), w \in BOOLEAN :
        resp.complete /\ KethoFetch(resp, w)

\* The server answers 200 and the stream breaks off.
Fetch200Interrupted ==
    \E resp \in Responses200(srv) :
        ~resp.complete /\ KethoFetch(resp, TRUE)

\* The server answers 304 to the validators of the request.
Fetch304 ==
    \E resp \in Responses304(srv, RequestHeaders(meta_file)), w \in BOOLEAN :
        KethoFetch(resp, w)

\* The server answers with an error, or not at all.
FetchError ==
    \E resp \in ResponsesError :
        resp.status \notin {200, 304} /\ KethoFetch(resp, TRUE)

\* Upstream publishes another version of the file.
ServerChanges ==
    /\ srv' \in ServerVersions \ {srv}
    /\ UNCHANGED <<cache_file, meta_file, tmp_file, last200, kcall, kglobals>>
    /\ UNCHANGED notCache

\* The cache file goes missing while its .meta file stays (the cache
\* directory was cleaned or restored in part).
CacheFileRemoved ==
    /\ cache_file.exists
    /\ cache_file' = Absent
    /\ UNCHANGED <<srv, meta_file, tmp_file, last200, kcall, kglobals>>
    /\ UNCHANGED notCache

(***************************************************************************)
(* The specifications.                                                     *)
(***************************************************************************)
MergeIdle == mA = <<>> /\ mB = <<>> /\ regAB = <<>> /\ regBA = <<>> /\ mstep = 0
CustomIdle == clines = <<>> /\ cread = {} /\ from_lua = <<>> /\ from_txt = {}
EmitIdle == edict = <<>> /\ eparts = <<>> /\ eout = NoOutput
ParseIdle == psrc = [kind |-> "none"] /\ pout = <<>> /\ pdone = FALSE
CacheIdle ==
    /\ srv = 0 /\ cache_file = Absent /\ meta_file = NoMeta /\ tmp_file = Absent
    /\ last200 = <<>> /\ kcall = NoCall /\ kglobals = {}
RunIdle ==
    /\ pc = "off" /\ idx = 0 /\ all_globals = <<>> /\ gen_globals = {}
    /\ fetchlog = <<>> /\ fs = [p \in Paths |-> Absent] /\ lastOp = NoOp /\ emits = 0

\* One run of either entry point over the files it finds.
Init == RunInit /\ MergeIdle /\ CustomIdle /\ EmitIdle /\ ParseIdle /\ CacheIdle
Next ==
    \/ StartUpdate
    \/ FetchOk
    \/ FetchFailed
    \/ ReadCustom
    \/ UpdateLuacheckrc
    \/ StartGenerate
    \/ GenFetchOk
    \/ GenFetchFailed
    \/ GenReadCustom
    \/ GenWrite
    \/ GenerateAgain
Spec == Init /\ [][Next]_vars

\* merge_globals folding two Symbol Maps into an empty Registry, both orders.
InitMerge == MergeInit /\ CustomIdle /\ EmitIdle /\ ParseIdle /\ CacheIdle /\ RunIdle
NextMerge == MergeFirst \/ MergeSecond
SpecMerge == InitMerge /\ [][NextMerge]_vars

\* The custom file read by both readers.
InitCustom == CustomInit /\ MergeIdle /\ EmitIdle /\ ParseIdle /\ CacheIdle /\ RunIdle
NextCustom == ReadAsLua \/ ReadAsTxt
SpecCustom == InitCustom /\ [][NextCustom]_vars

\* A Registry filled in any order, then rendered by every emitter.
InitEmit == EmitInit /\ MergeIdle /\ CustomIdle /\ ParseIdle /\ CacheIdle /\ RunIdle
NextEmit == EmitInsert \/ EmitRender
SpecEmit == InitEmit /\ [][NextEmit]_vars

\* A source file read by parse_api_definitions or parse_enum_definitions.
InitParse == ParseInit /\ MergeIdle /\ CustomIdle /\ EmitIdle /\ CacheIdle /\ RunIdle
NextParse == ParseApi \/ ParseEnum
SpecParse == InitParse /\ [][NextParse]_vars

\* Calls of fetch_globalstrings_globals_ketho against a server and a cache
\* directory that change between them.
InitCache == CacheInit /\ MergeIdle /\ CustomIdle /\ EmitIdle /\ ParseIdle /\ RunIdle
NextCache ==
    \/ Fetch200
    \/ Fetch200Interrupted
    \/ Fetch304
    \/ FetchError
    \/ ServerChanges
    \/ CacheFileRemoved
SpecCache == InitCache /\ [][NextCache]_vars


(***************************************************************************)
(* The Registry merger: C1, C2, C3 (under SpecMerge).                      *)
(***************************************************************************)
\* The field names a value holds, each with the path of keys that leads to
\* its list.
RECURSIVE AllFields(_, _)
AllFields(v, path) ==
    IF v.t = "list" THEN {<<path, v.l[i]>> : i \in DOMAIN v.l}
    ELSE UNION {AllFields(v.d[i].v, Append(path, v.d[i].k)) : i \in DOMAIN v.d}

\* The keys two Symbol Maps share.
Shared == Keys(mA) \cap Keys(mB)

\* C1: folding A then B into an empty Registry gives the same Registry (same
\* keys, same form per key, same field sets) as folding B then A.
C1_MergeCommutative ==
    mstep = 2 => DictEq(regAB, regBA)

\* C2: a key Plain in one Symbol Map and Structured in the other is, after
\* both are merged in either order, Structured with the fields of the
\* Structured side.
C2_StructuredDominatesPlain ==
    mstep = 2 =>
        \A k \in Shared :
            /\ (Get(mA, k).t = "True" /\ Get(mB, k).t = "dict") =>
                  (PyEq(Get(regAB, k), Get(mB, k)) /\ PyEq(Get(regBA, k), Get(mB, k)))
            /\ (Get(mA, k).t = "dict" /\ Get(mB, k).t = "True") =>
                  (PyEq(Get(regAB, k), Get(mA, k)) /\ PyEq(Get(regBA, k), Get(mA, k)))

\* C3: a key Structured on both sides stays Structured and holds the union of
\* both field sets, at every depth; no field of the Registry is lost by a
\* merge.
C3_FieldsAccumulate ==
    mstep = 2 =>
        /\ \A k \in Shared :
              (Get(mA, k).t = "dict" /\ Get(mB, k).t = "dict") =>
                  /\ Get(regAB, k).t = "dict"
                  /\ AllFields(Get(regAB, k), <<>>) =
                        AllFields(Get(mA, k), <<>>) \cup AllFields(Get(mB, k), <<>>)
        /\ AllFields(PyDict(mA), <<>>) \subseteq AllFields(PyDict(regAB), <<>>)


(***************************************************************************)
(* The runs: C4 .. C8 (under Spec).                                        *)
(***************************************************************************)
\* The Registry is empty after every source and the custom input.
EmptyAfterAll ==
    \/ pc \in {"u_emit", "u_done", "exit1", "raised"} /\ all_globals = <<>>
    \/ pc \in {"g_write", "g_done"} /\ gen_globals = {}

\* The run is over.
RunOver == pc \in {"u_done", "exit1", "raised", "g_done"}

\* C4: a run whose Registry is empty after every source and the custom input
\* ends with a failure indication and writes no output file, from either
\* entry point.
C4_EmptyRegistryIsFatal ==
    EmptyAfterAll =>
        /\ ~(lastOp.wrote /\ lastOp.path \in OutputFiles)
        /\ RunOver => pc = "exit1"

\* C5: an emitter writes its target only when the file does not exist or its
\* content differs from the newly rendered content.
C5_WriteIfChanged ==
    (lastOp.wrote /\ lastOp.path \in OutputFiles) =>
        (~lastOp.existed \/ lastOp.before # lastOp.after)

\* The elements of text at the indices K, in their order.
Pick(text, K) ==
    [n \in 1..Cardinality(K) |->
        text[CHOOSE i \in K : Cardinality({j \in K : j < i}) = n - 1]]

\* The tokens of a document outside its globals block (from "globals = {" to
\* the brace that closes it), whitespace left out.
OutsideGlobals(text) ==
    LET g == Find(text, GLOBALS_OPEN)
        \* the braces open inside the block after token j
        depth(j) == 1 + Cardinality({m \in (g + 1)..j : text[m] \in {"{", " = {"}})
                      - Cardinality({m \in (g + 1)..j : text[m] = "}"})
        closes == {j \in (g + 1)..Len(text) : depth(j) = 0}
        e == IF closes = {} THEN Len(text)
             ELSE CHOOSE j \in closes : \A m \in closes : j <= m
    IN IF g = 0
       THEN Pick(text, {i \in DOMAIN text : text[i] \notin Whitespace})
       ELSE Pick(text, {i \in DOMAIN text :
                           (i < g \/ i > e) /\ text[i] \notin Whitespace})

\* C6: update_luacheckrc on an existing document leaves every directive
\* outside the globals block as it was, wherever it stands.
C6_OnlyGlobalsBlockRegenerated ==
    (lastOp.by = "update_luacheckrc" /\ lastOp.existed /\ lastOp.wrote) =>
        OutsideGlobals(lastOp.after) = OutsideGlobals(lastOp.before)

\* The text of a document that precedes its globals block: all of it when it
\* has none.
BeforeGlobals(text) ==
    IF Find(text, GLOBALS_OPEN) = 0 THEN text
    ELSE SubSeq(text, 1, Find(text, GLOBALS_OPEN) - 1)

\* C6 as amended: update_luacheckrc on an existing document keeps the text
\* that precedes the globals block (up to the whitespace that ends it) and
\* replaces the block and everything after it by the regenerated block.
C6_PrecedingTextKept ==
    (lastOp.by = "update_luacheckrc" /\ lastOp.existed /\ lastOp.wrote) =>
        /\ rstrip(BeforeGlobals(lastOp.after)) = rstrip(BeforeGlobals(lastOp.before))
        /\ Find(lastOp.after, GLOBALS_OPEN) # 0
        /\ SubSeq(lastOp.after, Find(lastOp.after, GLOBALS_OPEN), Len(lastOp.after))
              = GlobalsBlock(all_globals) \o <<NL>>

\* C6's case: a document with directives before its globals block has been
\* updated with another Registry.
C6_Witness ==
    /\ lastOp.by = "update_luacheckrc"
    /\ lastOp.existed
    /\ lastOp.wrote
    /\ Find(lastOp.before, GLOBALS_OPEN) > 1
    /\ lastOp.before # lastOp.after

\* C7: update_luacheckrc on a missing document returns without error and
\* leaves the default directives followed by the rendered globals block.
C7_CreatedFromDefault ==
    (lastOp.by = "update_luacheckrc" /\ ~lastOp.existed) =>
        /\ lastOp.raised = ""
        /\ fs[LUACHECKRC_PATH] = File(Preamble \o GlobalsBlock(all_globals) \o <<NL>>)

\* The names the custom file of each entry point yields.
CustomKeysLua ==
    IF fs[CUSTOM_GLOBALS_LUA].exists /\ lastOp.path # CUSTOM_GLOBALS_LUA
    THEN Keys(parse_table_of_strings(fs[CUSTOM_GLOBALS_LUA].text))
    ELSE {}
CustomKeysTxt ==
    IF fs[CUSTOM_GLOBALS_TXT].exists
    THEN read_custom_globals(fs[CUSTOM_GLOBALS_TXT].text)
    ELSE {}

\* C8: whichever fetches fail, no run ends before every source has been
\* attempted in the fixed order (update_globals stops only at the final check
\* of an empty Registry, after the custom file); a failed source contributes
\* nothing, and every name the parser of a fetched source yields is a key of
\* the final Registry.
C8_FailureIsolation ==
    /\ pc \in {"u_emit", "u_done", "exit1", "raised"} =>
          /\ [i \in DOMAIN fetchlog |-> fetchlog[i].src] =
                [i \in DOMAIN RESOURCE_FILES |-> RESOURCE_FILES[i].name]
          /\ \A i \in DOMAIN fetchlog :
                fetchlog[i].ok =>
                    Keys(found_globals(RESOURCE_FILES[i])) \subseteq Keys(all_globals)
          /\ Keys(all_globals) \subseteq
                CustomKeysLua \cup
                UNION {Keys(found_globals(RESOURCE_FILES[i])) :
                          i \in {j \in DOMAIN fetchlog : fetchlog[j].ok}}
    /\ pc \in {"g_write", "g_done"} =>
          /\ [i \in DOMAIN fetchlog |-> fetchlog[i].src] = GEN_SOURCES
          /\ \A i \in DOMAIN fetchlog :
                fetchlog[i].ok => gen_found(GEN_SOURCES[i]) \subseteq gen_globals
          /\ gen_globals \subseteq
                CustomKeysTxt \cup
                UNION {gen_found(GEN_SOURCES[i]) :
                          i \in {j \in DOMAIN fetchlog : fetchlog[j].ok}}

\* C8's case: a finished run in which a fetch failed and a later one
\* succeeded, the Registry holding what the later one yielded.
C8_Witness ==
    /\ pc = "u_done"
    /\ \E i, j \in DOMAIN fetchlog : i < j /\ ~fetchlog[i].ok /\ fetchlog[j].ok
    /\ Cardinality({i \in DOMAIN fetchlog : ~fetchlog[i].ok}) >= 2
    /\ all_globals # <<>>


(***************************************************************************)
(* The custom symbols input: C9 (under SpecCustom).                        *)
(***************************************************************************)
\* The index of the first "." of a name that has the form table.field (both
\* parts non-empty), 0 otherwise.
DotAt(name) ==
    IF Find(name, ".") > 1 /\ Find(name, ".") < Len(name) THEN Find(name, ".") ELSE 0

\* The symbol a line of the table-of-strings dialect names: the content of the
\* quoted string, or the line itself when it is not quoted.
Unquoted(s) == IF TableStringMatch(s) # <<>> THEN TableStringMatch(s) ELSE s

\* The Symbol Map d holds what the symbol text n contributes: field of a
\* Structured table for table.field, a Plain entry otherwise.
ContributesTo(d, n) ==
    IF DotAt(n) # 0
    THEN LET table == SubSeq(n, 1, DotAt(n) - 1)
             field == SubSeq(n, DotAt(n) + 1, Len(n))
         IN /\ n \notin Keys(d)
            /\ table \in Keys(d)
            /\ Get(d, table).t = "dict"
            /\ <<<<s_fields>>, field>> \in AllFields(Get(d, table), <<>>)
    ELSE n \in Keys(d) /\ Get(d, n).t = "True"

\* What read_custom_globals returned, as a Symbol Map of Plain entries.
RECURSIVE PlainMap(_)
PlainMap(S) ==
    IF S = {} THEN <<>>
    ELSE LET x == CHOOSE y \in S : TRUE IN <<Item(x, PyTrue)>> \o PlainMap(S \ {x})

\* C9: every line of the custom file that is neither blank nor a comment
\* contributes, trimmed, a Plain entry named by the line, or for table.field
\* the field to the Structured entry of the table; for each of the two
\* readers.
C9_CustomLinesContribute ==
    \A i \in DOMAIN clines :
        LET s == strip(clines[i])
        IN /\ ("lua" \in cread /\ s # <<>>
                /\ ~startswith(s, <<"#">>) /\ ~startswith(s, <<"-", "-">>))
              => ContributesTo(from_lua, Unquoted(s))
           /\ ("txt" \in cread /\ s # <<>> /\ ~startswith(s, <<"#">>))
              => ContributesTo(PlainMap(from_txt), s)

(***************************************************************************)
(* Deterministic emission: C10 (under SpecEmit).                           *)
(***************************************************************************)
\* The names a text spells out: its maximal runs of name characters, in
\* order.
Runs(text) ==
    LET starts == {i \in DOMAIN text :
                      text[i] \in NameChars /\ (i = 1 \/ text[i - 1] \notin NameChars)}
        endOf(i) == CHOOSE j \in i..Len(text) :
                      /\ \A m \in i..j : text[m] \in NameChars
                      /\ (j = Len(text) \/ text[j + 1] \notin NameChars)
        nth(n) == CHOOSE i \in starts : Cardinality({j \in starts : j < i}) = n - 1
    IN [n \in 1..Cardinality(starts) |-> SubSeq(text, nth(n), endOf(nth(n)))]

\* Strictly ascending in code point order: sorted, nothing repeated.
Ascending(names) ==
    \A i \in 1..(Len(names) - 1) : StrLess(names[i], names[i + 1])

\* The key each part of format_globals_recursive starts with.
TopNames(parts) == [i \in DOMAIN parts |-> Runs(parts[i])[1]]

\* The parts format_globals_recursive gives for d have ascending keys, and so
\* has every dict below it; every list below it is written ascending.
RECURSIVE SortedDeep(_, _)
SortedDeep(d, indent) ==
    LET parts == format_globals_recursive(d, indent)
    IN /\ Ascending(TopNames(parts))
       /\ Range(TopNames(parts)) = Keys(d)
       /\ \A i \in DOMAIN parts :
             LET v == Get(d, TopNames(parts)[i])
             IN /\ v.t = "dict" => SortedDeep(v.d, indent + 1)
                /\ v.t = "list" =>
                      /\ Ascending(Tail(Runs(parts[i])))
                      /\ Range(Tail(Runs(parts[i]))) = Range(v.l)

\* The dicts with the content of d, in every insertion order of its items and
\* of the items of its nested dicts.
Reorderings(d) ==
    {q \in [DOMAIN d -> EmitEntries] : DictEq(q, d)}

\* C10: every rendered output lists the symbol keys in ascending code point
\* order, none repeated, nested keys and field lists likewise, and is the
\* same text for every insertion order of the same content.
C10_DeterministicEmission ==
    eout.done =>
        /\ Ascending(TopNames(eparts))
        /\ Range(TopNames(eparts)) = Keys(edict)
        /\ SortedDeep(edict, 1)
        /\ \A txt \in {eout.rc, eout.lua, eout.json} :
              /\ Ascending(Runs(txt))
              /\ Range(Runs(txt)) = Keys(edict)
        /\ \A q \in Reorderings(edict) :
              /\ GlobalsBlock(q) = eout.block
              /\ generate_luacheckrc_content(KeyOrder(q)) = eout.rc
              /\ generate_wow_globals_lua(KeyOrder(q)) = eout.lua
              /\ generate_wow_globals_json(KeyOrder(q)) = eout.json

\* C10's case: a Registry whose keys were inserted out of order, with a
\* nested table among them, has been rendered.
C10_Witness ==
    /\ eout.done
    /\ Len(edict) >= 3
    /\ \E i \in 1..(Len(edict) - 1) : StrLess(edict[i + 1].k, edict[i].k)
    /\ s_Enum \in Keys(edict)
    /\ Cardinality(Reorderings(edict)) > 6


(***************************************************************************)
(* Symbol names: C11 (under SpecCustom).                                   *)
(***************************************************************************)
\* A Symbol name: a non-empty string of letters, digits and underscore.
IsSymbolName(s) == s # <<>> /\ \A i \in DOMAIN s : s[i] \in NameChars

\* C11: every key the custom file contributes to the Registry, through
\* parse_table_of_strings or through read_custom_globals, is a Symbol name:
\* non-empty, of letters, digits and underscore only (no dot, space or quote).
C11_KeysAreSymbolNames ==
    /\ \A k \in Keys(from_lua) : IsSymbolName(k)
    /\ \A n \in from_txt : IsSymbolName(n)

(***************************************************************************)
(* The whole-file parsers: C12 and C13 (under SpecParse).                  *)
(***************************************************************************)
\* C12: for every table an API file declares, parse_api_definitions yields a
\* Structured symbol of that table whose fields are exactly the strings of
\* the table's own fields block, none when it has no such block or an empty
\* one; strings of another table or after the block are not among them, and
\* no table is left out.
C12_TablesWithOwnFields ==
    (pdone /\ psrc.kind = "api") =>
        \A i \in DOMAIN psrc.tables :
            /\ ApiTableNames[i] \in Keys(pout)
            /\ PyEq(Get(pout, ApiTableNames[i]),
                    Structured(Range(psrc.tables[i].fields)))

\* C13: for every child table an enum file declares in Enum or Constants,
\* parse_enum_definitions yields the parent as a Structured symbol that holds
\* a nested Structured symbol of the child with the fields the child
\* declares; for every child, not only the first.
C13_EnumChildrenNested ==
    (pdone /\ psrc.kind = "enum") =>
        \A i \in DOMAIN psrc.children :
            LET parent == Chars(psrc.parent)
                child == EnumChildNames[i]
            IN /\ parent \in Keys(pout)
               /\ Get(pout, parent).t = "dict"
               /\ child \in Keys(Get(pout, parent).d)
               /\ PyEq(Get(Get(pout, parent).d, child),
                       Structured(Range(psrc.children[i])))

(***************************************************************************)
(* Cache integrity: C14 (under SpecCache).                                 *)
(***************************************************************************)
\* C14: whenever cached_get returns without raising, the cache file at the
\* returned path holds the complete body of the most recent 200 response; a
\* 304 received while the cache file is missing leaves no empty or truncated
\* cache file.
C14_CacheHoldsLast200 ==
    kcall.returned =>
        /\ kcall.file.exists
        /\ kcall.expect # <<>>
        /\ kcall.file.text = kcall.expect

=============================================================================
